---- MODULE Spec2Model ----
(***************************************************************************)
(* Shape-level and call-level model of models/vqvae.py: the AttnBlock,     *)
(* ResnetBlock, Downsample, Upsample, Encoder, Decoder and VQVAE classes.  *)
(*                                                                         *)
(* A tensor is its shape (B, C, H, W) plus the name of the component that  *)
(* produced it.  Module constructors are operators that build the same     *)
(* records of declared channel widths the Python constructors build; the   *)
(* forward passes are stepped one sub-module call at a time, each call     *)
(* checking the declared width against the tensor it receives exactly as   *)
(* torch's Conv2d / GroupNorm do (a mismatch raises).                      *)
(*                                                                         *)
(* Python indices are kept 0-based in the loop variables; a Python list    *)
(* element l[i] is the TLA+ sequence element l[i + 1].                     *)
(***************************************************************************)
EXTENDS Integers, Sequences, FiniteSets, TLC

\* ------------------------------------------------------------------ bounds
\* Longest ch_mult (number of resolution levels) explored.
MaxLevels == 3
\* Largest num_res_blocks explored.
MaxNumResBlocks == 2
\* Largest resolution explored.
MaxResolution == 8
\* Longest patch_sizes explored.
MaxScales == 2
\* Largest magnitude of a tensor element explored.
MaxVal == 2

\* ------------------------------------------------------- program constants
\* nn.GroupNorm(num_groups=32, ...)
NumGroups == 32
\* .clamp(-1, 1)
ClampMin == -1
ClampMax == 1

\* Values the configuration fields are drawn from.
Mults == {1, 2}
Dims == {16, 32}
InChannelsOf == {3}
ZChannelsOf == {4}
OutChOf == {1}
Batches == {1, 2}

RECURSIVE Pow2(_)
Pow2(n) == IF n <= 0 THEN 1 ELSE 2 * Pow2(n - 1)

RECURSIVE SeqsUpTo(_, _)
SeqsUpTo(S, n) ==
    IF n = 0 THEN {<<>>}
    ELSE LET shorter == SeqsUpTo(S, n - 1)
         IN  shorter \cup {Append(s, e) : s \in {t \in shorter : Len(t) = n - 1}, e \in S}

\* ------------------------------------------------------------------ tensors
Tensor(b, c, h, w, by) == [ok |-> TRUE, B |-> b, C |-> c, H |-> h, W |-> w, by |-> by]
\* The outcome of an operator call that raised.
Raised == [ok |-> FALSE, B |-> 0, C |-> 0, H |-> 0, W |-> 0, by |-> "raise"]
NoTensor == [ok |-> FALSE, B |-> 0, C |-> 0, H |-> 0, W |-> 0, by |-> "none"]

\* nn.Conv2d output size along one spatial axis.
ConvOut(n, kernel_size, stride, padding) == ((n + 2 * padding - kernel_size) \div stride) + 1

\* nn.Conv2d(in_channels, out_channels, kernel_size, stride, padding)(x)
Conv2d(x, in_channels, out_channels, kernel_size, stride, padding) ==
    IF ~x.ok \/ x.C # in_channels
       \/ x.H + 2 * padding < kernel_size \/ x.W + 2 * padding < kernel_size
    THEN Raised
    ELSE Tensor(x.B, out_channels,
                ConvOut(x.H, kernel_size, stride, padding),
                ConvOut(x.W, kernel_size, stride, padding), "op")

\* nn.GroupNorm(num_groups=32, num_channels)(x): shape preserving.
GroupNorm(x, num_channels) ==
    IF ~x.ok \/ x.C # num_channels THEN Raised
    ELSE Tensor(x.B, x.C, x.H, x.W, "op")

\* The constructor nn.GroupNorm(32, num_channels) raises unless 32 divides num_channels.
GroupNormBuilds(num_channels) == num_channels % NumGroups = 0

\* swish is elementwise: the shape is kept.
swish(x) == x

\* x + h of two tensors: the shapes must agree.
AddT(x, h) ==
    IF ~x.ok \/ ~h.ok \/ x.B # h.B \/ x.C # h.C \/ x.H # h.H \/ x.W # h.W THEN Raised
    ELSE Tensor(x.B, x.C, x.H, x.W, "op")

\* -------------------------------------------------------------- AttnBlock
AttnBlockInit(in_channels) == [in_channels |-> in_channels]
AttnBlockBuilds(in_channels) == GroupNormBuilds(in_channels)

\* rearrange "b c h w -> b 1 (h w) c" and back, as (b, heads, seq, c).
AttnBlock_forward(blk, x_in) ==
    LET c == blk.in_channels
        x_BCHW == GroupNorm(x_in, c)
        q_BCHW == Conv2d(x_BCHW, c, c, 1, 1, 0)
        k_BCHW == Conv2d(x_BCHW, c, c, 1, 1, 0)
        v_BCHW == Conv2d(x_BCHW, c, c, 1, 1, 0)
        h_BCHW == IF q_BCHW.ok /\ k_BCHW.ok /\ v_BCHW.ok
                  THEN Tensor(x_BCHW.B, x_BCHW.C, x_BCHW.H, x_BCHW.W, "op")
                  ELSE Raised
    IN  AddT(x_BCHW, Conv2d(h_BCHW, c, c, 1, 1, 0))

\* ------------------------------------------------------------- ResnetBlock
ResnetBlockInit(in_channels, out_channels) ==
    [in_channels |-> in_channels, out_channels |-> out_channels,
     nin_shortcut |-> in_channels # out_channels]
ResnetBlockBuilds(in_channels, out_channels) ==
    GroupNormBuilds(in_channels) /\ GroupNormBuilds(out_channels)

\* Whether forward runs the 1x1 shortcut convolution.
ResnetBlock_uses_shortcut(blk) == blk.in_channels # blk.out_channels

ResnetBlock_forward(blk, x) ==
    LET h1 == Conv2d(swish(GroupNorm(x, blk.in_channels)),
                     blk.in_channels, blk.out_channels, 3, 1, 1)
        h2 == Conv2d(swish(GroupNorm(h1, blk.out_channels)),
                     blk.out_channels, blk.out_channels, 3, 1, 1)
        xs == IF ResnetBlock_uses_shortcut(blk)
              THEN Conv2d(x, blk.in_channels, blk.out_channels, 1, 1, 0)
              ELSE x
    IN  AddT(xs, h2)

\* ------------------------------------------------- Downsample / Upsample
DownsampleInit(in_channels) == [present |-> TRUE, in_channels |-> in_channels]
UpsampleInit(in_channels) == [present |-> TRUE, in_channels |-> in_channels]
NoResample == [present |-> FALSE, in_channels |-> 0]

\* Downsample without its padding.
DownsamplePad_none == <<0, 0, 0, 0>>

\* pad = (0, 1, 0, 1): (left, right, top, bottom).
DownsamplePad == <<0, 1, 0, 1>>

\* nn.functional.pad(x, pad, mode="constant", value=0)
Pad(x, pad) ==
    IF ~x.ok THEN Raised
    ELSE Tensor(x.B, x.C, x.H + pad[3] + pad[4], x.W + pad[1] + pad[2], "op")

Downsample_forward(ds, x) ==
    Conv2d(Pad(x, DownsamplePad), ds.in_channels, ds.in_channels, 3, 2, 0)

\* nn.functional.interpolate(x, scale_factor=2.0, mode="nearest")
Interpolate(x, scale_factor) ==
    IF ~x.ok THEN Raised
    ELSE Tensor(x.B, x.C, x.H * scale_factor, x.W * scale_factor, "op")

Upsample_forward(us, x) ==
    Conv2d(Interpolate(x, 2), us.in_channels, us.in_channels, 3, 1, 1)

\* ----------------------------------------------------------------- Encoder
\* in_ch_mult = (1,) + tuple(ch_mult)
InChMult(ch_mult) == <<1>> \o ch_mult

\* The inner loop of a level: n ResnetBlocks, block_in becoming block_out after the first.
RECURSIVE LevelBlocks(_, _, _)
LevelBlocks(block_in, block_out, n) ==
    IF n <= 0 THEN <<>>
    ELSE <<ResnetBlockInit(block_in, block_out)>> \o LevelBlocks(block_out, block_out, n - 1)

\* block_in as the inner loop leaves it.
BlockInAfter(block_in, block_out, n) == IF n <= 0 THEN block_in ELSE block_out

\* One pass of the Encoder's level loop, for Python index i_level.
EncoderLevel(ch, ch_mult, num_res_blocks, i_level) ==
    LET num_resolutions == Len(ch_mult)
        block_in  == ch * InChMult(ch_mult)[i_level + 1]
        block_out == ch * ch_mult[i_level + 1]
        after     == BlockInAfter(block_in, block_out, num_res_blocks)
    IN  [block |-> LevelBlocks(block_in, block_out, num_res_blocks),
         attn |-> <<>>,
         resample |-> IF i_level # num_resolutions - 1 THEN DownsampleInit(after)
                      ELSE NoResample]

\* block_in after the level loop (self.ch when the loop body never ran).
EncoderMidWidth(ch, ch_mult, num_res_blocks) ==
    LET num_resolutions == Len(ch_mult)
    IN  IF num_resolutions = 0 THEN ch
        ELSE BlockInAfter(ch * InChMult(ch_mult)[num_resolutions],
                          ch * ch_mult[num_resolutions], num_res_blocks)

\* Encoder.__init__: the module tree with its declared channel widths.
EncoderInit(resolution, in_channels, ch, ch_mult, num_res_blocks, z_channels) ==
    LET num_resolutions == Len(ch_mult)
        block_in == EncoderMidWidth(ch, ch_mult, num_res_blocks)
    IN  [ch |-> ch,
         num_resolutions |-> num_resolutions,
         num_res_blocks |-> num_res_blocks,
         resolution |-> resolution,
         in_channels |-> in_channels,
         z_channels |-> z_channels,
         conv_in |-> <<in_channels, ch>>,
         levels |-> [k \in 1..num_resolutions |->
                        EncoderLevel(ch, ch_mult, num_res_blocks, k - 1)],
         mid |-> [block_1 |-> ResnetBlockInit(block_in, block_in),
                  attn_1 |-> AttnBlockInit(block_in),
                  block_2 |-> ResnetBlockInit(block_in, block_in)],
         norm_out |-> block_in,
         conv_out |-> <<block_in, z_channels>>,
         order |-> [k \in 1..num_resolutions |-> k - 1],
         z_shape |-> <<0, 0, 0, 0>>]

\* Every GroupNorm a module tree constructs is constructible.
TreeBuilds(m) ==
    /\ \A k \in DOMAIN m.levels : \A j \in DOMAIN m.levels[k].block :
          ResnetBlockBuilds(m.levels[k].block[j].in_channels,
                            m.levels[k].block[j].out_channels)
    /\ ResnetBlockBuilds(m.mid.block_1.in_channels, m.mid.block_1.out_channels)
    /\ AttnBlockBuilds(m.mid.attn_1.in_channels)
    /\ ResnetBlockBuilds(m.mid.block_2.in_channels, m.mid.block_2.out_channels)
    /\ GroupNormBuilds(m.norm_out)

\* ----------------------------------------------------------------- Decoder
\* block_in = ch * ch_mult[self.num_resolutions - 1] raises IndexError on an empty list.
DecoderIndexError(ch_mult) == Len(ch_mult) = 0

\* self.up.append(up) in place of the prepend.
InsertFront_append(list, up) == Append(list, up)

\* self.up.insert(0, up): prepend.
InsertFront(list, up) == <<up>> \o list

\* The Decoder's level loop from Python index i_level down to 0:
\* <<up list, construction order, final block_in>>.
RECURSIVE DecoderLevels(_, _, _, _, _, _)
DecoderLevels(ch, ch_mult, num_res_blocks, i_level, block_in, acc) ==
    IF i_level < 0 THEN [up |-> acc.up, order |-> acc.order, block_in |-> block_in]
    ELSE LET block_out == ch * ch_mult[i_level + 1]
             after == BlockInAfter(block_in, block_out, num_res_blocks + 1)
             up == [block |-> LevelBlocks(block_in, block_out, num_res_blocks + 1),
                    attn |-> <<>>,
                    resample |-> IF i_level # 0 THEN UpsampleInit(after) ELSE NoResample]
         IN  DecoderLevels(ch, ch_mult, num_res_blocks, i_level - 1, after,
                           [up |-> InsertFront(acc.up, up),
                            order |-> Append(acc.order, i_level)])

\* Decoder.__init__ (called only when DecoderIndexError is false).
DecoderInit(ch, out_ch, ch_mult, num_res_blocks, in_channels, resolution, z_channels) ==
    LET num_resolutions == Len(ch_mult)
        block_in == ch * ch_mult[num_resolutions]
        curr_res == resolution \div Pow2(num_resolutions - 1)
        built == DecoderLevels(ch, ch_mult, num_res_blocks, num_resolutions - 1, block_in,
                               [up |-> <<>>, order |-> <<>>])
    IN  [ch |-> ch,
         num_resolutions |-> num_resolutions,
         num_res_blocks |-> num_res_blocks,
         resolution |-> resolution,
         in_channels |-> in_channels,
         z_channels |-> z_channels,
         conv_in |-> <<z_channels, block_in>>,
         levels |-> built.up,
         mid |-> [block_1 |-> ResnetBlockInit(block_in, block_in),
                  attn_1 |-> AttnBlockInit(block_in),
                  block_2 |-> ResnetBlockInit(block_in, block_in)],
         norm_out |-> built.block_in,
         conv_out |-> <<built.block_in, out_ch>>,
         order |-> built.order,
         z_shape |-> <<1, z_channels, curr_res, curr_res>>]

\* A module that was never constructed.
NoModule ==
    [ch |-> 0, num_resolutions |-> 0, num_res_blocks |-> 0, resolution |-> 0,
     in_channels |-> 0, z_channels |-> 0, conv_in |-> <<0, 0>>, levels |-> <<>>,
     mid |-> [block_1 |-> ResnetBlockInit(0, 0), attn_1 |-> AttnBlockInit(0),
              block_2 |-> ResnetBlockInit(0, 0)],
     norm_out |-> 0, conv_out |-> <<0, 0>>, order |-> <<>>, z_shape |-> <<0, 0, 0, 0>>]

\* ------------------------------------------------- VectorQuantizer (.quant)
\* The quantizer's call contract: a quantized map of the latent's shape, one residual
\* map, one index grid and one scale factor per entry of patch_sizes, and a loss.
PerScale(kind, patch_sizes) ==
    [k \in 1..Len(patch_sizes) |-> [kind |-> kind, scale |-> patch_sizes[k]]]

VectorQuantizer_forward(f, patch_sizes) ==
    [fhat   |-> IF f.ok THEN Tensor(f.B, f.C, f.H, f.W, "quantizer") ELSE Raised,
     r_maps |-> PerScale("r_map", patch_sizes),
     idxs   |-> PerScale("idx", patch_sizes),
     scales |-> PerScale("scale", patch_sizes),
     loss   |-> [kind |-> "loss", scale |-> 0]]

NoQuant ==
    [fhat |-> NoTensor, r_maps |-> <<>>, idxs |-> <<>>, scales |-> <<>>,
     loss |-> [kind |-> "none", scale |-> 0]]

\* ------------------------------------------------------------------- VQVAE
\* The Decoder fed the raw latent instead of the quantized map.
VQVAE_decoder_input_latent(f, quant) == f

\* x_hat = self.decoder(fhat)
VQVAE_decoder_input(f, quant) == quant.fhat

\* return x_hat, r_maps, idxs, scales, loss
VQVAE_forward_return(x_hat, val, quant) ==
    [x_hat |-> x_hat, val |-> val, r_maps |-> quant.r_maps, idxs |-> quant.idxs,
     scales |-> quant.scales, loss |-> quant.loss]

\* return idxs
VQVAE_img_to_indices_return(quant) ==
    [x_hat |-> NoTensor, val |-> 0, r_maps |-> <<>>, idxs |-> quant.idxs,
     scales |-> <<>>, loss |-> [kind |-> "none", scale |-> 0]]

\* Tensor.clamp(min, max) on one element.
Clamp(v, min, max) == IF v < min THEN min ELSE IF v > max THEN max ELSE v

\* to_img without the clamp.
VQVAE_to_img_value_unclamped(v) == v

\* self.decoder(f_hat_BCHW).clamp(-1, 1)
VQVAE_to_img_value(v) == Clamp(v, ClampMin, ClampMax)

\* A bare tensor returned by Encoder.forward, Decoder.forward or to_img.
TensorReturn(t, val) ==
    [x_hat |-> t, val |-> val, r_maps |-> <<>>, idxs |-> <<>>, scales |-> <<>>,
     loss |-> [kind |-> "none", scale |-> 0]]

NoReturn == TensorReturn(NoTensor, 0)

\* for i_block in range(self.num_res_blocks) / range(self.num_res_blocks + 1)
EncoderBlocksPerLevel(m) == m.num_res_blocks
\* The Decoder's loop running one block short.
DecoderBlocksPerLevel_short(m) == m.num_res_blocks
DecoderBlocksPerLevel(m) == m.num_res_blocks + 1

\* ------------------------------------------------------------------- state
VARIABLES
    config,     \* the VQVAEConfig
    vqvae,      \* "none", "built" or "raised": VQVAE(config)
    enc_state,  \* "none", "built" or "raised": Encoder(...)
    encoder,    \* the Encoder's module tree
    dec_state,  \* "none", "built" or "raised": Decoder(...)
    decoder,    \* the Decoder's module tree
    call,       \* the entry point being run
    pc,         \* position inside the running forward pass
    i_level,    \* loop variable
    i_block,    \* loop variable
    x,          \* the argument of the call
    h,          \* the local h of Encoder.forward / Decoder.forward
    trace,      \* sub-modules invoked so far, in order
    f,          \* what self.encoder(x) returned
    quant,      \* what self.quantizer(f) returned
    dec_in,     \* the argument self.decoder was called with
    raw,        \* one element of what Decoder.forward returned
    ret,        \* what the entry point returned
    a_pc,       \* position inside AttnBlock.forward (value-level run)
    a_arg,      \* the argument of AttnBlock.forward
    a_x,        \* the local x_BCHW
    a_p,        \* proj_out(h_BCHW)
    a_ret       \* what AttnBlock.forward returned

pipe_vars == <<config, vqvae, enc_state, encoder, dec_state, decoder, call, pc, i_level,
               i_block, x, h, trace, f, quant, dec_in, raw, ret>>
attn_vars == <<a_pc, a_arg, a_x, a_p, a_ret>>
vars == <<pipe_vars, attn_vars>>

PatchSizes == {[k \in 1..n |-> k] : n \in 1..MaxScales}

Configs ==
    [resolution : 1..MaxResolution,
     in_channels : InChannelsOf,
     dim : Dims,
     ch_mult : SeqsUpTo(Mults, MaxLevels),
     num_res_blocks : 0..MaxNumResBlocks,
     z_channels : ZChannelsOf,
     out_ch : OutChOf,
     patch_sizes : PatchSizes]

Values == (0 - MaxVal)..MaxVal
NoVec == <<0, 0>>

AttnIdle ==
    /\ a_pc = "off" /\ a_arg = NoVec /\ a_x = NoVec /\ a_p = NoVec /\ a_ret = NoVec

PipeIdle(c) ==
    /\ config = c
    /\ vqvae = "none" /\ enc_state = "none" /\ dec_state = "none"
    /\ encoder = NoModule /\ decoder = NoModule
    /\ call = "none" /\ pc = "idle" /\ i_level = 0 /\ i_block = 0
    /\ x = NoTensor /\ h = NoTensor /\ trace = <<>>
    /\ f = NoTensor /\ quant = NoQuant /\ dec_in = NoTensor
    /\ raw = 0 /\ ret = NoReturn

Init == (\E c \in Configs : PipeIdle(c)) /\ AttnIdle

\* ------------------------------------------------------------ construction
EncoderOf(c) ==
    EncoderInit(c.resolution, c.in_channels, c.dim, c.ch_mult, c.num_res_blocks, c.z_channels)
DecoderOf(c) ==
    DecoderInit(c.dim, c.out_ch, c.ch_mult, c.num_res_blocks, c.in_channels, c.resolution,
                c.z_channels)

EncoderBuilds(c) == TreeBuilds(EncoderOf(c))
DecoderBuilds(c) == ~DecoderIndexError(c.ch_mult) /\ TreeBuilds(DecoderOf(c))

Unbuilt == vqvae = "none" /\ enc_state = "none" /\ dec_state = "none" /\ pc = "idle"

\* VQVAE.__init__: Encoder(...), then Decoder(...), then VectorQuantizer(...).
NewVQVAE ==
    /\ Unbuilt
    /\ enc_state' = IF EncoderBuilds(config) THEN "built" ELSE "raised"
    /\ encoder' = IF EncoderBuilds(config) THEN EncoderOf(config) ELSE NoModule
    /\ dec_state' = IF ~EncoderBuilds(config) THEN "none"
                    ELSE IF DecoderBuilds(config) THEN "built" ELSE "raised"
    /\ decoder' = IF EncoderBuilds(config) /\ DecoderBuilds(config)
                  THEN DecoderOf(config) ELSE NoModule
    /\ vqvae' = IF EncoderBuilds(config) /\ DecoderBuilds(config) THEN "built" ELSE "raised"
    /\ UNCHANGED <<config, call, pc, i_level, i_block, x, h, trace, f, quant, dec_in, raw, ret>>
    /\ UNCHANGED attn_vars

\* Encoder(...) on its own.
NewEncoder ==
    /\ Unbuilt
    /\ enc_state' = IF EncoderBuilds(config) THEN "built" ELSE "raised"
    /\ encoder' = IF EncoderBuilds(config) THEN EncoderOf(config) ELSE NoModule
    /\ UNCHANGED <<config, vqvae, dec_state, decoder, call, pc, i_level, i_block, x, h,
                   trace, f, quant, dec_in, raw, ret>>
    /\ UNCHANGED attn_vars

\* Decoder(...) on its own.
NewDecoder ==
    /\ Unbuilt
    /\ dec_state' = IF DecoderBuilds(config) THEN "built" ELSE "raised"
    /\ decoder' = IF DecoderBuilds(config) THEN DecoderOf(config) ELSE NoModule
    /\ UNCHANGED <<config, vqvae, enc_state, encoder, call, pc, i_level, i_block, x, h,
                   trace, f, quant, dec_in, raw, ret>>
    /\ UNCHANGED attn_vars

\* ------------------------------------------------------------ entry points
Ev(net, part, level, index, shortcut) ==
    [net |-> net, part |-> part, level |-> level, index |-> index, shortcut |-> shortcut]

\* The image argument: (B, in_channels, resolution, resolution).
Image(b) == Tensor(b, config.in_channels, config.resolution, config.resolution, "input")

\* Latent sizes a caller hands to the Decoder directly (batch of one).
LatentSizes == {1, 2}

Enter(name, arg, first) ==
    /\ pc = "idle" /\ call = "none"
    /\ call' = name /\ x' = arg /\ pc' = first
    /\ UNCHANGED <<config, vqvae, enc_state, encoder, dec_state, decoder, i_level, i_block,
                   h, trace, f, quant, dec_in, raw, ret>>
    /\ UNCHANGED attn_vars

\* model(image)
CallForward == vqvae = "built" /\ \E b \in Batches : Enter("forward", Image(b), "enc_conv_in")

\* model.img_to_indices(image)
CallImgToIndices ==
    vqvae = "built" /\ \E b \in Batches : Enter("img_to_indices", Image(b), "enc_conv_in")

\* model.to_img(f_hat_BCHW)
CallToImg ==
    /\ vqvae = "built"
    /\ \E n \in LatentSizes :
          Enter("to_img", Tensor(1, config.z_channels, n, n, "caller"), "dec_enter")

\* encoder(image), the Encoder used on its own
CallEncoder ==
    vqvae = "none" /\ enc_state = "built" /\ \E b \in Batches : Enter("encoder", Image(b), "enc_conv_in")

\* decoder(z), the Decoder used on its own
CallDecoder ==
    /\ vqvae = "none" /\ dec_state = "built"
    /\ \E n \in LatentSizes :
          Enter("decoder", Tensor(1, config.z_channels, n, n, "caller"), "dec_enter")

\* One sub-module call inside a forward pass: h becomes its result, or the pass raises.
Step(result, ev, next_pc, next_level, next_block) ==
    /\ h' = IF result.ok THEN result ELSE Raised
    /\ pc' = IF result.ok THEN next_pc ELSE "raised"
    /\ trace' = Append(trace, ev)
    /\ i_level' = next_level
    /\ i_block' = next_block
    /\ UNCHANGED <<config, vqvae, enc_state, encoder, dec_state, decoder, call, x, f, quant,
                   dec_in, raw, ret>>
    /\ UNCHANGED attn_vars

\* ---------------------------------------------------------- Encoder.forward
\* h = self.conv_in(x)
EncConvIn ==
    /\ pc = "enc_conv_in"
    /\ Step(Conv2d(x, encoder.conv_in[1], encoder.conv_in[2], 3, 1, 1),
            Ev("encoder", "conv_in", -1, -1, FALSE), "enc_loop", 0, 0)

\* h = self.down[i_level].block[i_block](h), then the level's attn when it has any
LevelBlock(m, net) ==
    LET lvl == m.levels[i_level + 1]
        blk == lvl.block[i_block + 1]
        hb  == ResnetBlock_forward(blk, h)
        ha  == IF Len(lvl.attn) > 0 THEN AttnBlock_forward(lvl.attn[i_block + 1], hb) ELSE hb
    IN  Step(ha, Ev(net, "block", i_level, i_block, ResnetBlock_uses_shortcut(blk)),
             pc, i_level, i_block + 1)

EncBlock ==
    /\ pc = "enc_loop"
    /\ i_level < encoder.num_resolutions
    /\ i_block < EncoderBlocksPerLevel(encoder)
    /\ LevelBlock(encoder, "encoder")

\* if i_level != self.num_resolutions - 1: h = self.down[i_level].downsample(h)
EncLevelEnd ==
    /\ pc = "enc_loop"
    /\ i_level < encoder.num_resolutions
    /\ i_block >= EncoderBlocksPerLevel(encoder)
    /\ IF i_level # encoder.num_resolutions - 1
       THEN Step(Downsample_forward(encoder.levels[i_level + 1].resample, h),
                 Ev("encoder", "downsample", i_level, -1, FALSE), pc, i_level + 1, 0)
       ELSE /\ i_level' = i_level + 1
            /\ i_block' = 0
            /\ UNCHANGED <<config, vqvae, enc_state, encoder, dec_state, decoder, call, pc,
                           x, h, trace, f, quant, dec_in, raw, ret>>
            /\ UNCHANGED attn_vars

\* h = self.mid.block_1(h)
EncMidBlock1 ==
    /\ pc = "enc_loop"
    /\ i_level >= encoder.num_resolutions
    /\ Step(ResnetBlock_forward(encoder.mid.block_1, h),
            Ev("encoder", "mid.block_1", -1, -1, ResnetBlock_uses_shortcut(encoder.mid.block_1)),
            "enc_mid_attn", i_level, i_block)

\* h = self.mid.attn_1(h)
EncMidAttn ==
    /\ pc = "enc_mid_attn"
    /\ Step(AttnBlock_forward(encoder.mid.attn_1, h),
            Ev("encoder", "mid.attn_1", -1, -1, FALSE), "enc_mid_block_2", i_level, i_block)

\* h = self.mid.block_2(h)
EncMidBlock2 ==
    /\ pc = "enc_mid_block_2"
    /\ Step(ResnetBlock_forward(encoder.mid.block_2, h),
            Ev("encoder", "mid.block_2", -1, -1, ResnetBlock_uses_shortcut(encoder.mid.block_2)),
            "enc_norm_out", i_level, i_block)

\* h = self.norm_out(h); h = swish(h)
EncNormOut ==
    /\ pc = "enc_norm_out"
    /\ Step(swish(GroupNorm(h, encoder.norm_out)),
            Ev("encoder", "norm_out", -1, -1, FALSE), "enc_conv_out", i_level, i_block)

\* h = self.conv_out(h); return h
EncConvOut ==
    /\ pc = "enc_conv_out"
    /\ LET out == Conv2d(h, encoder.conv_out[1], encoder.conv_out[2], 3, 1, 1)
           res == IF out.ok THEN Tensor(out.B, out.C, out.H, out.W, "encoder") ELSE Raised
       IN  /\ h' = res
           /\ trace' = Append(trace, Ev("encoder", "conv_out", -1, -1, FALSE))
           /\ f' = IF res.ok THEN res ELSE f
           /\ pc' = IF ~res.ok THEN "raised"
                    ELSE IF call = "encoder" THEN "done" ELSE "quantize"
           /\ ret' = IF res.ok /\ call = "encoder" THEN TensorReturn(res, 0) ELSE ret
    /\ UNCHANGED <<config, vqvae, enc_state, encoder, dec_state, decoder, call, i_level,
                   i_block, x, quant, dec_in, raw>>
    /\ UNCHANGED attn_vars

\* fhat, r_maps, idxs, scales, loss = self.quantizer(f)
Quantize ==
    /\ pc = "quantize"
    /\ LET out == VectorQuantizer_forward(f, config.patch_sizes)
       IN  /\ quant' = out
           /\ IF call = "img_to_indices"
              THEN /\ ret' = VQVAE_img_to_indices_return(out)
                   /\ pc' = "done"
              ELSE /\ ret' = ret
                   /\ pc' = "dec_enter"
    /\ UNCHANGED <<config, vqvae, enc_state, encoder, dec_state, decoder, call, i_level,
                   i_block, x, h, trace, f, dec_in, raw>>
    /\ UNCHANGED attn_vars

\* ---------------------------------------------------------- Decoder.forward
\* The argument of self.decoder(...): fhat in forward, the caller's map otherwise.
DecoderArgument == IF call = "forward" THEN VQVAE_decoder_input(f, quant) ELSE x

\* h = self.conv_in(z)
DecConvIn ==
    /\ pc = "dec_enter"
    /\ LET z == DecoderArgument
           out == Conv2d(z, decoder.conv_in[1], decoder.conv_in[2], 3, 1, 1)
       IN  /\ dec_in' = z
           /\ h' = IF out.ok THEN out ELSE Raised
           /\ pc' = IF out.ok THEN "dec_mid_block_1" ELSE "raised"
           /\ trace' = Append(trace, Ev("decoder", "conv_in", -1, -1, FALSE))
    /\ UNCHANGED <<config, vqvae, enc_state, encoder, dec_state, decoder, call, i_level,
                   i_block, x, f, quant, raw, ret>>
    /\ UNCHANGED attn_vars

\* h = self.mid.block_1(h)
DecMidBlock1 ==
    /\ pc = "dec_mid_block_1"
    /\ Step(ResnetBlock_forward(decoder.mid.block_1, h),
            Ev("decoder", "mid.block_1", -1, -1, ResnetBlock_uses_shortcut(decoder.mid.block_1)),
            "dec_mid_attn", i_level, i_block)

\* h = self.mid.attn_1(h)
DecMidAttn ==
    /\ pc = "dec_mid_attn"
    /\ Step(AttnBlock_forward(decoder.mid.attn_1, h),
            Ev("decoder", "mid.attn_1", -1, -1, FALSE), "dec_mid_block_2", i_level, i_block)

\* h = self.mid.block_2(h); the level loop starts at reversed(range(num_resolutions))[0]
DecMidBlock2 ==
    /\ pc = "dec_mid_block_2"
    /\ Step(ResnetBlock_forward(decoder.mid.block_2, h),
            Ev("decoder", "mid.block_2", -1, -1, ResnetBlock_uses_shortcut(decoder.mid.block_2)),
            "dec_loop", decoder.num_resolutions - 1, 0)

\* h = self.up[i_level].block[i_block](h), then the level's attn when it has any
DecBlock ==
    /\ pc = "dec_loop"
    /\ i_level >= 0
    /\ i_block < DecoderBlocksPerLevel(decoder)
    /\ LevelBlock(decoder, "decoder")

\* if i_level != 0: h = self.up[i_level].upsample(h)
DecLevelEnd ==
    /\ pc = "dec_loop"
    /\ i_level >= 0
    /\ i_block >= DecoderBlocksPerLevel(decoder)
    /\ IF i_level # 0
       THEN Step(Upsample_forward(decoder.levels[i_level + 1].resample, h),
                 Ev("decoder", "upsample", i_level, -1, FALSE), pc, i_level - 1, 0)
       ELSE /\ i_level' = i_level - 1
            /\ i_block' = 0
            /\ UNCHANGED <<config, vqvae, enc_state, encoder, dec_state, decoder, call, pc,
                           x, h, trace, f, quant, dec_in, raw, ret>>
            /\ UNCHANGED attn_vars

\* h = self.norm_out(h); h = swish(h)
DecNormOut ==
    /\ pc = "dec_loop"
    /\ i_level < 0
    /\ Step(swish(GroupNorm(h, decoder.norm_out)),
            Ev("decoder", "norm_out", -1, -1, FALSE), "dec_conv_out", i_level, i_block)

\* h = self.conv_out(h); return h.  The element values are whatever the learned
\* weights make them: any value.
DecConvOut ==
    /\ pc = "dec_conv_out"
    /\ LET out == Conv2d(h, decoder.conv_out[1], decoder.conv_out[2], 3, 1, 1)
           res == IF out.ok THEN Tensor(out.B, out.C, out.H, out.W, "decoder") ELSE Raised
       IN  /\ h' = res
           /\ trace' = Append(trace, Ev("decoder", "conv_out", -1, -1, FALSE))
           /\ \E v \in Values :
                /\ raw' = IF res.ok THEN v ELSE raw
                /\ ret' = IF ~res.ok THEN ret
                          ELSE IF call = "forward" THEN VQVAE_forward_return(res, v, quant)
                          ELSE IF call = "decoder" THEN TensorReturn(res, v)
                          ELSE ret
           /\ pc' = IF ~res.ok THEN "raised"
                    ELSE IF call = "to_img" THEN "clamp" ELSE "done"
    /\ UNCHANGED <<config, vqvae, enc_state, encoder, dec_state, decoder, call, i_level,
                   i_block, x, f, quant, dec_in>>
    /\ UNCHANGED attn_vars

\* return self.decoder(f_hat_BCHW).clamp(-1, 1)
ToImgClamp ==
    /\ pc = "clamp"
    /\ ret' = TensorReturn(Tensor(h.B, h.C, h.H, h.W, "clamp"), VQVAE_to_img_value(raw))
    /\ pc' = "done"
    /\ UNCHANGED <<config, vqvae, enc_state, encoder, dec_state, decoder, call, i_level,
                   i_block, x, h, trace, f, quant, dec_in, raw>>
    /\ UNCHANGED attn_vars

\* ------------------------------------------ AttnBlock.forward, by value
\* One GroupNorm group of two elements, as the vector of its values.
Vecs == Values \X Values

Sign(n) == IF n > 0 THEN 1 ELSE IF n < 0 THEN -1 ELSE 0

\* self.norm on a freshly constructed module (weight 1, bias 0) and a group of two
\* elements a, b: (a - mean) / sqrt(var + eps) is sign(a - b) up to eps = 1e-6.
GroupNormValues(v) == <<Sign(v[1] - v[2]), Sign(v[2] - v[1])>>

VecAdd(u, v) == <<u[1] + v[1], u[2] + v[2]>>

\* x_BCHW = self.norm(x_BCHW)
AttnNorm ==
    /\ a_pc = "norm"
    /\ a_x' = GroupNormValues(a_x)
    /\ a_pc' = "attend"
    /\ UNCHANGED <<a_arg, a_p, a_ret>>
    /\ UNCHANGED pipe_vars

\* q, k, v, scaled_dot_product_attention and proj_out: a learned function of the
\* normalized map, any value.
AttnProject ==
    /\ a_pc = "attend"
    /\ \E p \in Vecs : a_p' = p
    /\ a_pc' = "add"
    /\ UNCHANGED <<a_arg, a_x, a_ret>>
    /\ UNCHANGED pipe_vars

\* return x_BCHW + self.proj_out(h_BCHW)
AttnReturn ==
    /\ a_pc = "add"
    /\ a_ret' = VecAdd(a_x, a_p)
    /\ a_pc' = "done"
    /\ UNCHANGED <<a_arg, a_x, a_p>>
    /\ UNCHANGED pipe_vars

\* AttnBlock.forward called on any two-element group.
InitAttn ==
    /\ PipeIdle(CHOOSE c \in Configs : TRUE)
    /\ a_pc = "norm" /\ a_p = NoVec /\ a_ret = NoVec
    /\ \E v \in Vecs : a_arg = v /\ a_x = v

NextAttn == AttnNorm \/ AttnProject \/ AttnReturn

SpecAttn == InitAttn /\ [][NextAttn]_vars

Next ==
    \/ NewVQVAE \/ NewEncoder \/ NewDecoder
    \/ CallForward \/ CallImgToIndices \/ CallToImg \/ CallEncoder \/ CallDecoder
    \/ EncConvIn \/ EncBlock \/ EncLevelEnd \/ EncMidBlock1 \/ EncMidAttn \/ EncMidBlock2
    \/ EncNormOut \/ EncConvOut \/ Quantize
    \/ DecConvIn \/ DecMidBlock1 \/ DecMidAttn \/ DecMidBlock2 \/ DecBlock \/ DecLevelEnd
    \/ DecNormOut \/ DecConvOut \/ ToImgClamp

Spec == Init /\ [][Next]_vars

\* ==================================================================== claims
\* Section 3's validity of a Configuration: at least one level, and the resolution
\* divisible by 2^(levels - 1).
ValidConfiguration(c) ==
    /\ Len(c.ch_mult) >= 1
    /\ c.resolution % Pow2(Len(c.ch_mult) - 1) = 0

\* The shape of a tensor as a tuple.
Shape(t) == <<t.B, t.C, t.H, t.W>>

\* The events of one network in the trace.
NetTrace(net) == SelectSeq(trace, LAMBDA e : e.net = net)

\* How many times a part of a network was invoked.
Count(net, part) == Len(SelectSeq(trace, LAMBDA e : e.net = net /\ e.part = part))

\* C1: for every valid Configuration and every input (B, in_channels, resolution,
\* resolution), VQVAE.forward returns a reconstruction of shape
\* (B, out_ch, resolution, resolution): the pass does not raise, and what it returns
\* has that shape.
C1_ShapeRoundTrip ==
    (ValidConfiguration(config) /\ call = "forward") =>
        /\ pc # "raised"
        /\ pc = "done" =>
              Shape(ret.x_hat) = <<x.B, config.out_ch, config.resolution, config.resolution>>

\* What the code guarantees of VQVAE.forward: whenever it returns on a valid
\* Configuration, the reconstruction has the shape (B, out_ch, resolution, resolution).
ForwardShapeWhenReturned ==
    (ValidConfiguration(config) /\ call = "forward" /\ pc = "done") =>
        Shape(ret.x_hat) = <<x.B, config.out_ch, config.resolution, config.resolution>>

\* C2: a model is never produced from a Configuration whose resolution is not
\* divisible by 2^(len(ch_mult) - 1) or whose ch_mult is empty, and no forward pass
\* on such a Configuration runs to completion and returns a tensor.
C2_InvalidConfigurationRejected ==
    ~ValidConfiguration(config) =>
        ~(vqvae = "built" /\ call = "forward" /\ pc = "done" /\ ret.x_hat.ok)

\* Construction alone: no VQVAE, Encoder or Decoder object exists for an invalid
\* Configuration.
InvalidConfigurationNeverBuilt ==
    ~ValidConfiguration(config) =>
        (vqvae # "built" /\ enc_state # "built" /\ dec_state # "built")

\* C3: Encoder.forward on an input (B, in_channels, resolution, resolution) applies
\* exactly L - 1 Downsamples and returns a tensor of shape (B, z_channels,
\* resolution / 2^(L-1), resolution / 2^(L-1)), the spatial size the Decoder records
\* in z_shape.
C3_LatentShape ==
    (ValidConfiguration(config) /\ call = "encoder") =>
        /\ pc # "raised"
        /\ pc = "done" =>
              LET L == encoder.num_resolutions
                  z == DecoderOf(config).z_shape
              IN  /\ Count("encoder", "downsample") = L - 1
                  /\ Shape(ret.x_hat) = <<x.B, config.z_channels,
                                          config.resolution \div Pow2(L - 1),
                                          config.resolution \div Pow2(L - 1)>>
                  /\ ret.x_hat.H * Pow2(L - 1) = config.resolution
                  /\ <<ret.x_hat.H, ret.x_hat.W>> = <<z[3], z[4]>>

\* What the code guarantees of Encoder.forward: whenever it returns, it has applied
\* L - 1 Downsamples and the latent has the Decoder's z_shape spatial size.
LatentShapeWhenReturned ==
    (Len(config.ch_mult) >= 1 /\ f.ok) =>
        LET L == encoder.num_resolutions
            z == DecoderOf(config).z_shape
        IN  /\ Count("encoder", "downsample") = L - 1
            /\ Shape(f) = <<x.B, config.z_channels, z[3], z[4]>>
            /\ ValidConfiguration(config) => f.H * Pow2(L - 1) = config.resolution

\* C4: AttnBlock.forward returns its input as it was before the normalization plus
\* proj_out of the attention over the normalized input.
C4_ResidualIsInput ==
    a_pc = "done" => a_ret = VecAdd(a_arg, a_p)

\* What the code returns: the normalized input plus proj_out of the attention.
ResidualIsNormalizedInput ==
    a_pc = "done" => a_ret = VecAdd(GroupNormValues(a_arg), a_p)

\* The declared input channel count of the sub-module the running pass calls next,
\* and the tensor that sub-module receives.
NextModule ==
    LET enc_lvl == encoder.levels[i_level + 1]
        dec_lvl == decoder.levels[i_level + 1]
        at(c, t) == [declared |-> c, received |-> t, calls |-> TRUE]
    IN  CASE pc = "enc_conv_in" -> at(encoder.conv_in[1], x)
          [] pc = "enc_loop" /\ i_level < encoder.num_resolutions
                /\ i_block < EncoderBlocksPerLevel(encoder) ->
                at(enc_lvl.block[i_block + 1].in_channels, h)
          [] pc = "enc_loop" /\ i_level < encoder.num_resolutions - 1
                /\ i_block >= EncoderBlocksPerLevel(encoder) ->
                at(enc_lvl.resample.in_channels, h)
          [] pc = "enc_loop" /\ i_level >= encoder.num_resolutions ->
                at(encoder.mid.block_1.in_channels, h)
          [] pc = "enc_mid_attn" -> at(encoder.mid.attn_1.in_channels, h)
          [] pc = "enc_mid_block_2" -> at(encoder.mid.block_2.in_channels, h)
          [] pc = "enc_norm_out" -> at(encoder.norm_out, h)
          [] pc = "enc_conv_out" -> at(encoder.conv_out[1], h)
          [] pc = "dec_enter" -> at(decoder.conv_in[1], DecoderArgument)
          [] pc = "dec_mid_block_1" -> at(decoder.mid.block_1.in_channels, h)
          [] pc = "dec_mid_attn" -> at(decoder.mid.attn_1.in_channels, h)
          [] pc = "dec_mid_block_2" -> at(decoder.mid.block_2.in_channels, h)
          [] pc = "dec_loop" /\ i_level >= 0 /\ i_block < DecoderBlocksPerLevel(decoder) ->
                at(dec_lvl.block[i_block + 1].in_channels, h)
          [] pc = "dec_loop" /\ i_level > 0 /\ i_block >= DecoderBlocksPerLevel(decoder) ->
                at(dec_lvl.resample.in_channels, h)
          [] pc = "dec_loop" /\ i_level < 0 -> at(decoder.norm_out, h)
          [] pc = "dec_conv_out" -> at(decoder.conv_out[1], h)
          [] OTHER -> [declared |-> 0, received |-> NoTensor, calls |-> FALSE]

\* C10: for an Encoder and a Decoder built from any valid Configuration, every
\* sub-block's declared input channel count equals the channel count of the tensor
\* it receives during forward.
C10_ChannelChaining ==
    ValidConfiguration(config) =>
        (NextModule.calls => NextModule.declared = NextModule.received.C)

\* The same chaining with at least one ResnetBlock per Encoder level.
ChannelChainingWithBlocks ==
    (ValidConfiguration(config) /\ config.num_res_blocks >= 1) =>
        (NextModule.calls => NextModule.declared = NextModule.received.C)

\* The Decoder's chaining alone, for every num_res_blocks.
DecoderChannelChaining ==
    (ValidConfiguration(config) /\ NextModule.calls /\ pc \in {"dec_enter", "dec_mid_block_1",
        "dec_mid_attn", "dec_mid_block_2", "dec_loop", "dec_conv_out"}) =>
        NextModule.declared = NextModule.received.C

\* C5: VQVAE.to_img runs only the Decoder (neither Encoder nor Quantizer) on its
\* argument and returns the Decoder's output clamped element-wise to [-1, 1]; the
\* Decoder itself and VQVAE.forward return the Decoder's output unclamped.
C5_DecodeOnlyClamped ==
    /\ (call = "to_img" /\ pc = "done") =>
          /\ -1 <= ret.val /\ ret.val <= 1
          /\ (-1 <= raw /\ raw <= 1) => ret.val = raw
          /\ raw > 1 => ret.val = 1
          /\ raw < -1 => ret.val = -1
          /\ Shape(ret.x_hat) = Shape(h)
          /\ dec_in = x
          /\ NetTrace("encoder") = <<>>
          /\ NetTrace("decoder") = trace
          /\ f = NoTensor /\ quant = NoQuant
    /\ (call \in {"forward", "decoder"} /\ pc = "done") => ret.val = raw

\* to_img returned 1 for a Decoder output of 2.
C5_Witness == call = "to_img" /\ pc = "done" /\ raw = 2 /\ ret.val = 1

\* VQVAE.forward returned a value outside [-1, 1].
ForwardUnclampedReached == call = "forward" /\ pc = "done" /\ ret.val = -2

\* C6: VQVAE.forward feeds the Decoder the quantizer's first output, not the raw
\* latent, and returns (reconstruction, r_maps, idxs, scales, loss) with the last four
\* exactly as the quantizer produced them; r_maps and idxs have len(patch_sizes)
\* entries; img_to_indices returns the idxs of that same quantizer call.
C6_QuantizerPassThrough ==
    /\ (call = "forward" /\ pc = "done") =>
          /\ dec_in = quant.fhat
          /\ dec_in.by = "quantizer"
          /\ f.by = "encoder"
          /\ quant = VectorQuantizer_forward(f, config.patch_sizes)
          /\ ret.x_hat = h /\ ret.x_hat.by = "decoder"
          /\ <<ret.r_maps, ret.idxs, ret.scales, ret.loss>> =
                <<quant.r_maps, quant.idxs, quant.scales, quant.loss>>
          /\ Len(ret.r_maps) = Len(config.patch_sizes)
          /\ Len(ret.idxs) = Len(config.patch_sizes)
          /\ \A k \in 1..Len(config.patch_sizes) :
                /\ ret.r_maps[k].kind = "r_map"
                /\ ret.idxs[k].kind = "idx"
                /\ ret.scales[k].kind = "scale"
    /\ (call = "img_to_indices" /\ pc = "done") =>
          /\ quant = VectorQuantizer_forward(f, config.patch_sizes)
          /\ ret.idxs = quant.idxs
          /\ NetTrace("decoder") = <<>>

\* forward returned with two scales.
C6_Witness ==
    /\ call = "forward" /\ pc = "done"
    /\ Len(config.patch_sizes) = 2 /\ Len(ret.idxs) = 2
    /\ dec_in.by = "quantizer"

\* The parameter-bearing sub-modules a constructor built, as trace events.
Constructed(net, m, resample) ==
    {Ev(net, "conv_in", -1, -1, FALSE), Ev(net, "mid.attn_1", -1, -1, FALSE),
     Ev(net, "norm_out", -1, -1, FALSE), Ev(net, "conv_out", -1, -1, FALSE),
     Ev(net, "mid.block_1", -1, -1, m.mid.block_1.nin_shortcut),
     Ev(net, "mid.block_2", -1, -1, m.mid.block_2.nin_shortcut)}
    \cup UNION {{Ev(net, "block", k - 1, j - 1, m.levels[k].block[j].nin_shortcut) :
                    j \in DOMAIN m.levels[k].block} : k \in DOMAIN m.levels}
    \cup {Ev(net, resample, k - 1, -1, FALSE) :
             k \in {n \in DOMAIN m.levels : m.levels[n].resample.present}}

Invoked(net) == {trace[k] : k \in {n \in DOMAIN trace : trace[n].net = net}}

\* C7: when VQVAE.forward returns, every parameter-bearing sub-module the Encoder and
\* Decoder constructors built (conv_in, every level's ResnetBlocks with their
\* nin_shortcut when present, every Downsample/Upsample, the bottleneck blocks,
\* norm_out, conv_out) has been invoked, once, on the chain from the input to the
\* returned reconstruction.
C7_EveryBlockUsed ==
    (call = "forward" /\ pc = "done") =>
        /\ Invoked("encoder") = Constructed("encoder", encoder, "downsample")
        /\ Invoked("decoder") = Constructed("decoder", decoder, "upsample")
        /\ Len(trace) = Cardinality(Invoked("encoder")) + Cardinality(Invoked("decoder"))
        /\ x.by = "input" /\ f.by = "encoder"
        /\ dec_in = quant.fhat
        /\ ret.x_hat = h /\ h.by = "decoder"

\* forward returned on a model with a shortcut convolution and resamplers.
C7_Witness ==
    /\ call = "forward" /\ pc = "done"
    /\ config.num_res_blocks = 2
    /\ encoder.num_resolutions = 3
    /\ \E k \in DOMAIN trace : trace[k].net = "encoder" /\ trace[k].shortcut
    /\ \E k \in DOMAIN trace : trace[k].net = "decoder" /\ trace[k].shortcut

\* C8: Downsample maps an even spatial size N >= 2 to exactly N / 2 and Upsample maps
\* M to exactly 2M, both keeping the channel count; every other sub-module call of the
\* Encoder and Decoder leaves H and W as they were.
C8_ResamplingExact ==
    [][ trace' # trace =>
          LET ev == trace'[Len(trace')]
              arg == NextModule.received
              fits == NextModule.declared = arg.C
          IN  CASE ev.part = "downsample" ->
                     (fits /\ arg.H % 2 = 0 /\ arg.W % 2 = 0 /\ arg.H >= 2 /\ arg.W >= 2) =>
                        /\ h'.ok
                        /\ 2 * h'.H = arg.H /\ 2 * h'.W = arg.W
                        /\ h'.C = arg.C /\ h'.B = arg.B
                [] ev.part = "upsample" ->
                     fits =>
                        /\ h'.ok
                        /\ h'.H = 2 * arg.H /\ h'.W = 2 * arg.W
                        /\ h'.C = arg.C /\ h'.B = arg.B
                [] OTHER ->
                     h'.ok => (h'.H = arg.H /\ h'.W = arg.W /\ h'.B = arg.B)
      ]_vars

\* forward returned after two Downsamples (8 -> 4 -> 2) and two Upsamples (2 -> 4 -> 8).
C8_Witness ==
    /\ call = "forward" /\ pc = "done"
    /\ config.resolution = 8
    /\ Count("encoder", "downsample") = 2
    /\ Count("decoder", "upsample") = 2
    /\ f.H = 2 /\ ret.x_hat.H = 8

\* A Downsample took a 6 x 6 map to 3 x 3.
DownsampleSixReached ==
    /\ Len(trace) > 0 /\ trace[Len(trace)].part = "downsample"
    /\ x.H = 6 /\ Count("encoder", "downsample") = 1 /\ h.ok /\ h.H = 3 /\ h.W = 3

\* The level calls Decoder.forward is to make, from level i down to level 0, with n
\* blocks per level.
RECURSIVE DecoderVisits(_, _)
DecoderVisits(i, n) ==
    IF i < 0 THEN <<>>
    ELSE [j \in 1..n |-> [part |-> "block", level |-> i, index |-> j - 1]]
         \o (IF i # 0 THEN <<[part |-> "upsample", level |-> i, index |-> -1]>> ELSE <<>>)
         \o DecoderVisits(i - 1, n)

\* The level calls the running pass made on the Decoder.
DecoderLevelTrace ==
    LET t == SelectSeq(trace, LAMBDA e : e.net = "decoder" /\ e.part \in {"block", "upsample"})
    IN  [k \in 1..Len(t) |-> [part |-> t[k].part, level |-> t[k].level, index |-> t[k].index]]

\* C9: up[i] of a Decoder is the level for ch_mult[i] (num_res_blocks + 1 ResnetBlocks
\* ending at width ch * ch_mult[i], an Upsample iff i # 0); Decoder.forward visits the
\* levels L-1, ..., 0, the order they were constructed in, runs all the blocks of a
\* level before its Upsample and applies L - 1 Upsamples, as many as the Encoder has
\* Downsamples.
C9_DecoderLevelOrder ==
    dec_state = "built" =>
        LET L == decoder.num_resolutions
            n == config.num_res_blocks + 1
        IN  /\ L = Len(config.ch_mult)
            /\ Len(decoder.levels) = L
            /\ \A i \in 0..(L - 1) :
                  LET up == decoder.levels[i + 1]
                  IN  /\ Len(up.block) = n
                      /\ up.block[n].out_channels = config.dim * config.ch_mult[i + 1]
                      /\ up.resample.present <=> (i # 0)
            /\ decoder.order = [k \in 1..L |-> L - k]
            /\ (call \in {"forward", "to_img", "decoder"} /\ pc \in {"clamp", "done"}) =>
                  /\ DecoderLevelTrace = DecoderVisits(L - 1, n)
                  /\ Count("decoder", "upsample") = L - 1
                  /\ Cardinality({k \in DOMAIN EncoderOf(config).levels :
                                    EncoderOf(config).levels[k].resample.present}) = L - 1
                  /\ call = "forward" => Count("encoder", "downsample") = L - 1

\* Decoder.forward returned on a three-level Decoder whose widths differ per level.
C9_Witness ==
    /\ call = "decoder" /\ pc = "done"
    /\ config.ch_mult = <<1, 2, 2>>
    /\ config.num_res_blocks = 1
    /\ Count("decoder", "upsample") = 2

====
